---------------------------- MODULE Spec2Model ----------------------------
(***************************************************************************)
(* A model of spotkg.spot_client.SpotClient: one caller thread invoking    *)
(* the session's operations one after the other against the robot's        *)
(* services (lease, robot command, docking, graph-nav, autowalk, mission). *)
(*                                                                         *)
(* Every operation is one action, except start_autowalk, whose retry loop  *)
(* polls the mission service once per iteration: its call and each         *)
(* iteration of the loop are separate actions, and pc records that the     *)
(* caller is inside the loop.  What a service answers (a status, a list of *)
(* unknown snapshot ids, an exception) is chosen by \E in the action.      *)
(* A call ends with pc = "done"; the caller then takes the result and is   *)
(* free to make the next call (caller_resumes).                            *)
(*                                                                         *)
(* log is the list of requests made to the services during the current     *)
(* call, in order, each with the way it ended; result is how the call      *)
(* ended, with the source line of the return or raise statement.           *)
(***************************************************************************)
EXTENDS Integers, Sequences, FiniteSets

VARIABLES
    lease_keep_alive,   \* self.lease_keep_alive: "None", "alive" or "dead"
    pc,                 \* "idle" between calls, "start_autowalk" inside its
                        \* retry loop, "done" when the call has ended
    op,                 \* the operation called last
    args,               \* the arguments of start_autowalk
    first_state,        \* the first mission state polled in the call
    mission_state,      \* the local mission_state: the last state polled
    plays,              \* play_mission requests of the call (saturating)
    log,                \* requests made in the call
    upload,             \* what upload_autowalk loaded and was answered
    result,             \* how the call ended
    init_line,          \* the line of __init__ that raised, or its last line
    powered_on,         \* self.powered_on
    images,             \* self.images as read by get_qr_tags in the call
    orphaned            \* a keep-alive the session no longer refers to is alive

vars == <<lease_keep_alive, pc, op, args, first_state, mission_state, plays,
          log, upload, result, init_line, powered_on, images, orphaned>>

-----------------------------------------------------------------------------
(* Bounds *)

\* play_mission requests counted and logged exactly; further ones saturate.
MaxPlays == 2

\* Waypoint snapshot ids are 1..MaxWpSnap, edge snapshot ids 1..MaxEdgeSnap.
MaxWpSnap == 2
MaxEdgeSnap == 1

\* A timeout argument other than the default one.
ShortTimeout == 1

\* The ids of loaded missions are 1..MaxMissionId.
MaxMissionId == 1

-----------------------------------------------------------------------------
(* Program constants *)

\* start_autowalk(timeout=60, ...)
DefaultTimeout == 60

\* mission_state.mission_id == -1: no mission is loaded
NoMissionId == -1

\* self.robot.power_on(timeout_sec=20) / power_off(timeout_sec=20)
PowerTimeout == 20

-----------------------------------------------------------------------------
(* Results and requests *)

Returned(v, line) == [kind |-> "returned", value |-> v, line |-> line]
Raised(e, line)   == [kind |-> "raised", value |-> e, line |-> line]
NoResult          == [kind |-> "none", value |-> "-", line |-> 0]

Rpc(name, id, outcome) == [rpc |-> name, id |-> id, outcome |-> outcome]

RECURSIVE Count(_, _)
Count(s, name) ==
    IF s = <<>> THEN 0
    ELSE (IF Head(s).rpc = name THEN 1 ELSE 0) + Count(Tail(s), name)

\* bosdyn.client.ResponseError and RpcError: the errors of the RPC layer.
RpcLayerErrors == {"ResponseError", "RpcError"}

NoArgs == [timeout |-> DefaultTimeout, do_localize |-> FALSE,
           disable_directed_exploration |-> FALSE]

NoState == [status |-> "-", mission_id |-> 0, questions |-> FALSE]

NoUpload == [wp_loaded |-> {}, edge_loaded |-> {}, replied |-> FALSE,
             unknown_wp |-> <<>>, unknown_edge |-> <<>>]

-----------------------------------------------------------------------------
(* Lease *)

LeaseHeld == lease_keep_alive = "alive"

\* The caller starts an operation that runs to its end in one step and that
\* does not poll the mission service.
Begin(name) ==
    /\ pc = "idle"
    /\ op' = name
    /\ pc' = "done"
    /\ args' = NoArgs
    /\ first_state' = NoState
    /\ mission_state' = NoState
    /\ plays' = 0
    /\ UNCHANGED <<init_line, powered_on, images>>

\* if self.lease_keep_alive is not None and self.lease_keep_alive.is_alive()
\* (variant: the check left out)
AcquiredCheckMissing(ka) == FALSE
AlreadyAcquired(ka) == ka = "alive"

\* except Exception around LeaseKeepAlive(...)
\* (variant: an except clause naming ResponseError alone)
AcquireCatchesResponseError(e) == e = "ResponseError"
CaughtByAcquire(e) == TRUE

\* self.lease_keep_alive = LeaseKeepAlive(...): the keep-alive the attribute
\* referred to is not shut down by the assignment; if its thread is alive it
\* stays alive.
keep_alive_assigned ==
    /\ lease_keep_alive' = "alive"
    /\ orphaned' = (orphaned \/ lease_keep_alive = "alive")

acquire ==
    /\ Begin("acquire")
    /\ upload' = NoUpload
    /\ \E sync \in {"ok", "TimeSyncError"}, ka \in {"ok", "ResponseError", "RpcError"} :
        IF sync # "ok"
        THEN /\ log' = <<Rpc("wait_for_sync", 0, sync)>>
             /\ result' = Raised(sync, 149)
             /\ UNCHANGED <<lease_keep_alive, orphaned>>
        ELSE IF AlreadyAcquired(lease_keep_alive)
        THEN /\ log' = <<Rpc("wait_for_sync", 0, "ok")>>
             /\ result' = Returned("True", 154)
             /\ UNCHANGED <<lease_keep_alive, orphaned>>
        ELSE /\ log' = <<Rpc("wait_for_sync", 0, "ok"), Rpc("LeaseKeepAlive", 0, ka)>>
             /\ IF ka = "ok"
                THEN keep_alive_assigned /\ result' = Returned("True", 165)
                ELSE IF CaughtByAcquire(ka)
                THEN UNCHANGED <<lease_keep_alive, orphaned>>
                     /\ result' = Returned("False", 163)
                ELSE UNCHANGED <<lease_keep_alive, orphaned>>
                     /\ result' = Raised(ka, 160)

\* if self.lease_keep_alive is None or not self.lease_keep_alive.is_alive(): return
\* (variant: a release that always takes the early return)
ReleaseAlwaysReturnsEarly(ka) == TRUE
NothingToRelease(ka) == ka # "alive"

\* What release does to a keep-alive in state ka: the requests it makes,
\* the keep-alive afterwards and its exit.
release_run(ka) ==
    IF NothingToRelease(ka)
    THEN [log |-> <<>>, lease |-> ka, result |-> Returned("None", 170)]
    ELSE [log |-> <<Rpc("LeaseKeepAlive.shutdown", 0, "ok")>>,
          lease |-> "dead", result |-> Returned("None", 172)]

release ==
    /\ Begin("release")
    /\ UNCHANGED orphaned
    /\ upload' = NoUpload
    /\ log' = release_run(lease_keep_alive).log
    /\ lease_keep_alive' = release_run(lease_keep_alive).lease
    /\ result' = release_run(lease_keep_alive).result

\* if self.lease_keep_alive is None or not self.lease_keep_alive.is_alive()
\* (variant: the None test alone)
ToggleCreatesWhenNone(ka) == ka = "None"
ToggleCreates(ka) == ka # "alive"

toggle_lease ==
    /\ Begin("toggle_lease")
    /\ upload' = NoUpload
    /\ IF ToggleCreates(lease_keep_alive)
       THEN \E ka \in {"ok", "ResponseError", "RpcError"} :
              /\ log' = <<Rpc("LeaseKeepAlive", 0, ka)>>
              /\ IF ka = "ok"
                 THEN keep_alive_assigned /\ result' = Returned("None", 177)
                 ELSE UNCHANGED <<lease_keep_alive, orphaned>>
                      /\ result' = Raised(ka, 177)
       ELSE /\ log' = <<Rpc("LeaseKeepAlive.shutdown", 0, "ok")>>
            /\ lease_keep_alive' = "dead"
            /\ result' = Returned("None", 179)
            /\ UNCHANGED orphaned

-----------------------------------------------------------------------------
(* Robot commands: try_grpc and _start_robot_command *)

\* except (ResponseError, RpcError): the errors try_grpc converts.
\* (variant: an except clause naming ResponseError alone)
CaughtResponseErrorOnly(e) == e = "ResponseError"
CaughtByTryGrpc(e) == e \in {"ResponseError", "RpcError"}

\* try_grpc(desc, thunk): r is how thunk() ended.
try_grpc(r) ==
    IF r.kind = "raised" /\ CaughtByTryGrpc(r.value)
    THEN Returned("None", 280)
    ELSE r

\* The methods built on _start_robot_command.
CommandMethods ==
    {"sit", "stand", "stop", "move_forward", "move_backward", "strafe_left",
     "strafe_right", "turn_left", "turn_right", "cmd_vel", "stow", "unstow",
     "self_right", "safe_power_off", "return_to_origin", "scan_pose"}

\* How robot_command can end.  The robot accepts a command only from the
\* holder of the lease; "OtherError" is an error of neither RPC-layer class.
RobotCommandOutcomes ==
    IF LeaseHeld THEN {"ok", "ResponseError", "RpcError", "OtherError"}
    ELSE {"ResponseError", "RpcError", "OtherError"}

\* _start_command(): the thunk makes the one robot_command request.
start_command(e) ==
    IF e = "ok" THEN Returned("None", 286) ELSE Raised(e, 285)

\* _start_robot_command: the value of try_grpc is dropped.
start_robot_command(e) ==
    LET r == try_grpc(start_command(e))
    IN  IF r.kind = "raised" THEN r ELSE Returned("None", 288)

command ==
    \E m \in CommandMethods :
        /\ Begin(m)
        /\ UNCHANGED orphaned
        /\ upload' = NoUpload
        /\ UNCHANGED lease_keep_alive
        /\ \E e \in RobotCommandOutcomes :
            /\ log' = <<Rpc("robot_command", 0, e)>>
            /\ result' = start_robot_command(e)

-----------------------------------------------------------------------------
(* Docking *)

\* except CommandFailedError: the one error dock and undock convert.
CaughtByDock(e) == e = "CommandFailedError"

\* How blocking_dock_robot, blocking_undock and get_dock_id can end beside
\* succeeding: the command's own failure, or an error of the RPC layer.
DockingErrors == {"CommandFailedError", "ResponseError", "RpcError"}

\* The try statement around blocking_dock_robot / blocking_undock.
docking_result(e, caught_line, raise_line, done_line) ==
    IF e = "ok" THEN Returned("True", done_line)
    ELSE IF CaughtByDock(e) THEN Returned("False", caught_line)
    ELSE Raised(e, raise_line)

dock ==
    /\ Begin("dock")
    /\ UNCHANGED orphaned
    /\ upload' = NoUpload
    /\ UNCHANGED lease_keep_alive
    /\ \E e1 \in RobotCommandOutcomes, e2 \in {"ok"} \cup DockingErrors :
        LET stood == start_robot_command(e1)
        IN  IF stood.kind = "raised"
            THEN /\ log' = <<Rpc("robot_command", 0, e1)>>
                 /\ result' = stood
            ELSE /\ log' = <<Rpc("robot_command", 0, e1),
                             Rpc("blocking_dock_robot", 0, e2)>>
                 /\ result' = docking_result(e2, 236, 233, 238)

undock ==
    /\ Begin("undock")
    /\ UNCHANGED orphaned
    /\ upload' = NoUpload
    /\ UNCHANGED lease_keep_alive
    /\ \E id \in {"docked", "None", "ResponseError", "RpcError"},
          e2 \in {"ok"} \cup DockingErrors :
        IF id \in RpcLayerErrors
        THEN /\ log' = <<Rpc("get_dock_id", 0, id)>>
             /\ result' = Raised(id, 242)
        ELSE IF id = "None"
        THEN /\ log' = <<Rpc("get_dock_id", 0, "ok")>>
             /\ result' = Returned("False", 245)
        ELSE /\ log' = <<Rpc("get_dock_id", 0, "ok"), Rpc("blocking_undock", 0, e2)>>
             /\ result' = docking_result(e2, 250, 247, 252)

-----------------------------------------------------------------------------
(* The mission service *)

Statuses == {"NONE", "RUNNING", "PAUSED", "SUCCESS", "FAILURE", "STOPPED", "ERROR"}

\* What get_state can answer.  Questions are prompts of the loaded mission's
\* nodes, so a state without a mission carries none.
MissionStates ==
    {s \in [status : Statuses, mission_id : {NoMissionId} \cup 1..MaxMissionId,
            questions : BOOLEAN] :
        s.mission_id = NoMissionId => ~s.questions}

Bool(b) == IF b THEN "True" ELSE "False"

\* stop_autowalk: status not in (STATUS_RUNNING, STATUS_PAUSED) raises
\* (variant: PAUSED refused)
StopAllowedRunningOnly(status) == status = "RUNNING"
StopAllowed(status) == status \in {"RUNNING", "PAUSED"}

\* pause_autowalk: status != STATUS_RUNNING raises
\* (variant: PAUSED accepted)
PauseAllowedPausedToo(status) == status \in {"RUNNING", "PAUSED"}
PauseAllowed(status) == status = "RUNNING"

\* stop_autowalk: return status in (STATUS_SUCCESS, STATUS_STOPPED)
\* (variant: SUCCESS not counted)
StoppedOnly(status) == status = "STOPPED"
StopSucceeded(status) == status \in {"SUCCESS", "STOPPED"}

\* pause_autowalk: return status == STATUS_PAUSED
PauseSucceeded(status) == status = "PAUSED"

\* The precondition and the return value of the two methods.
Allowed(name, status) ==
    IF name = "stop_autowalk" THEN StopAllowed(status) ELSE PauseAllowed(status)

Succeeded(name, status) ==
    IF name = "stop_autowalk" THEN StopSucceeded(status) ELSE PauseSucceeded(status)

\* A call that polled the mission service ends: lg is what it requested,
\* s0 and s1 the first and the last state it polled, r how it ended.
mission_call_ends(name, lg, s0, s1, r) ==
    /\ pc = "idle"
    /\ op' = name
    /\ pc' = "done"
    /\ args' = NoArgs
    /\ plays' = 0
    /\ upload' = NoUpload
    /\ log' = lg
    /\ first_state' = s0
    /\ mission_state' = s1
    /\ result' = r
    /\ UNCHANGED <<lease_keep_alive, init_line, powered_on, images, orphaned>>

\* stop_autowalk and pause_autowalk: poll, check the precondition, request,
\* sleep, poll again.  line is the line of the first get_state.
stop_or_pause(name, request, line) ==
    \/ \E g0 \in RpcLayerErrors :
        mission_call_ends(name, <<Rpc("get_state", 0, g0)>>, NoState, NoState,
                          Raised(g0, line))
    \/ \E s0 \in MissionStates :
        IF ~Allowed(name, s0.status)
        THEN mission_call_ends(name, <<Rpc("get_state", 0, "ok")>>, s0, s0,
                               Raised("NoMissionRunningException", line + 2))
        ELSE \/ \E e \in RpcLayerErrors :
                  mission_call_ends(name,
                      <<Rpc("get_state", 0, "ok"), Rpc(request, 0, e)>>,
                      s0, s0, Raised(e, line + 5))
             \/ \E g1 \in RpcLayerErrors :
                  mission_call_ends(name,
                      <<Rpc("get_state", 0, "ok"), Rpc(request, 0, "ok"),
                        Rpc("get_state", 0, g1)>>,
                      s0, s0, Raised(g1, line + 8))
             \/ \E s1 \in MissionStates :
                  mission_call_ends(name,
                      <<Rpc("get_state", 0, "ok"), Rpc(request, 0, "ok"),
                        Rpc("get_state", 0, "ok")>>,
                      s0, s1, Returned(Bool(Succeeded(name, s1.status)), line + 11))

stop_autowalk ==
    stop_or_pause("stop_autowalk", "stop_mission", 511)

pause_autowalk ==
    stop_or_pause("pause_autowalk", "pause_mission", 526)

-----------------------------------------------------------------------------
(* start_autowalk *)

Timeouts == {ShortTimeout, DefaultTimeout}

\* path_following_mode is passed on to PlaySettings like
\* disable_directed_exploration and is left out.
StartArgs == [timeout : Timeouts, do_localize : BOOLEAN,
              disable_directed_exploration : BOOLEAN]

\* if mission_state.mission_id == -1
\* (variant: the check left out)
NeverNoMission(s) == FALSE
NoMissionLoaded(s) == s.mission_id = NoMissionId

\* while mission_state.status in (STATUS_NONE, STATUS_PAUSED)
ShouldRetry(status) == status \in {"NONE", "PAUSED"}

\* if mission_state.questions
\* (variant: the check left out)
QuestionsIgnored(s) == FALSE
HasQuestions(s) == s.questions

\* if mission_state.status in (STATUS_ERROR, STATUS_FAILURE)
\* (variant: FAILURE not checked)
StartFailedErrorOnly(status) == status = "ERROR"
StartFailed(status) == status \in {"ERROR", "FAILURE"}

\* return mission_state.status in (STATUS_RUNNING, STATUS_PAUSED)
\* (variant: a finished mission counted as started)
StartSucceededOrFinished(status) == status \in {"RUNNING", "PAUSED", "SUCCESS"}
StartSucceeded(status) == status \in {"RUNNING", "PAUSED"}

\* if do_localize: download_graph, then set_localization
\* (variant: localization whatever do_localize says)
LocalizedAlways(a) ==
    <<Rpc("download_graph", 0, "ok"), Rpc("set_localization", 0, "ok")>>
Localized(a) ==
    IF a.do_localize
    THEN <<Rpc("download_graph", 0, "ok"), Rpc("set_localization", 0, "ok")>>
    ELSE <<>>

\* The call up to the loop: localization, the first poll, the mission check.
start_autowalk ==
    /\ pc = "idle"
    /\ op' = "start_autowalk"
    /\ plays' = 0
    /\ upload' = NoUpload
    /\ UNCHANGED <<lease_keep_alive, init_line, powered_on, images, orphaned>>
    /\ \E a \in StartArgs :
        /\ args' = a
        /\ \/ /\ a.do_localize
              /\ first_state' = NoState
              /\ mission_state' = NoState
              /\ pc' = "done"
              /\ \/ \E d \in RpcLayerErrors :
                      /\ log' = <<Rpc("download_graph", 0, d)>>
                      /\ result' = Raised(d, 472)
                 \/ \E l \in RpcLayerErrors :
                      /\ log' = <<Rpc("download_graph", 0, "ok"),
                                  Rpc("set_localization", 0, l)>>
                      /\ result' = Raised(l, 477)
           \/ \E g \in RpcLayerErrors :
                /\ log' = Localized(a) \o <<Rpc("get_state", 0, g)>>
                /\ first_state' = NoState
                /\ mission_state' = NoState
                /\ pc' = "done"
                /\ result' = Raised(g, 482)
           \/ \E s0 \in MissionStates :
                /\ log' = Localized(a) \o <<Rpc("get_state", 0, "ok")>>
                /\ first_state' = s0
                /\ mission_state' = s0
                /\ IF NoMissionLoaded(s0)
                   THEN pc' = "done" /\ result' = Raised("AutowalkStartError", 486)
                   ELSE pc' = "start_autowalk" /\ result' = NoResult

\* lease_wallet.advance(): the wallet of a session whose keep-alive is not
\* alive may hold no lease, and advance() then raises NoSuchLease.
WalletAdvanceOutcomes ==
    IF LeaseHeld THEN {"ok"} ELSE {"ok", "NoSuchLease"}

\* Requests are counted and logged exactly up to MaxPlays iterations; the
\* loop itself goes on beyond them.
Played == IF plays < MaxPlays THEN plays + 1 ELSE plays
Logged(entries) == IF plays < MaxPlays THEN log \o entries ELSE log

\* One evaluation of the while condition, followed by the return statement
\* or by one iteration of the loop.
start_autowalk_loop ==
    /\ pc = "start_autowalk"
    /\ UNCHANGED <<lease_keep_alive, op, args, first_state, upload,
                   init_line, powered_on, images, orphaned>>
    /\ IF ~ShouldRetry(mission_state.status)
       THEN /\ result' = Returned(Bool(StartSucceeded(mission_state.status)), 507)
            /\ pc' = "done"
            /\ UNCHANGED <<mission_state, plays, log>>
       ELSE IF HasQuestions(mission_state)
       THEN /\ result' = Returned("False", 491)
            /\ pc' = "done"
            /\ UNCHANGED <<mission_state, plays, log>>
       ELSE \/ /\ "NoSuchLease" \in WalletAdvanceOutcomes
               /\ result' = Raised("NoSuchLease", 498)
               /\ pc' = "done"
               /\ UNCHANGED <<mission_state, plays, log>>
            \/ \E e \in RpcLayerErrors :
                 /\ log' = Logged(<<Rpc("play_mission", args.timeout, e)>>)
                 /\ plays' = Played
                 /\ result' = Raised(e, 499)
                 /\ pc' = "done"
                 /\ UNCHANGED mission_state
            \/ \E g \in RpcLayerErrors :
                 /\ log' = Logged(<<Rpc("play_mission", args.timeout, "ok"),
                                    Rpc("get_state", 0, g)>>)
                 /\ plays' = Played
                 /\ result' = Raised(g, 502)
                 /\ pc' = "done"
                 /\ UNCHANGED mission_state
            \/ \E s \in MissionStates :
                 /\ log' = Logged(<<Rpc("play_mission", args.timeout, "ok"),
                                    Rpc("get_state", 0, "ok")>>)
                 /\ plays' = Played
                 /\ mission_state' = s
                 /\ IF StartFailed(s.status)
                    THEN pc' = "done" /\ result' = Raised("AutowalkStartError", 505)
                    ELSE pc' = "start_autowalk" /\ result' = NoResult

-----------------------------------------------------------------------------
(* upload_autowalk *)

WpIds == 1..MaxWpSnap
EdgeIds == 1..MaxEdgeSnap

\* The lists of ids a response can carry: no id twice.
DistinctSeqs(S) ==
    {q \in UNION {[1..n -> S] : n \in 0..Cardinality(S)} :
        \A i, j \in DOMAIN q : i # j => q[i] # q[j]}

RECURSIVE SetToSeq(_)
SetToSeq(S) ==
    IF S = {} THEN <<>>
    ELSE LET m == CHOOSE x \in S : \A y \in S : x <= y
         IN  <<m>> \o SetToSeq(S \ {m})

Range(q) == {q[i] : i \in DOMAIN q}

\* The snapshots read from disk when the files of `files` can be read: the
\* graph's non-empty snapshot ids in order, up to the first that fails.
LoadedBefore(refs, files) ==
    {i \in refs : \A j \in refs : j <= i => j \in files}

\* for snapshot_id in response.unknown_..._snapshot_ids
\* (variant: every loaded snapshot, whatever the response lists)
EveryLoadedSnapshot(unknown, loaded) == SetToSeq(loaded)
SnapshotsToUpload(unknown, loaded) == unknown

\* current_..._snapshots[snapshot_id]: the ids before the first KeyError.
RECURSIVE KnownPrefix(_, _)
KnownPrefix(ids, loaded) ==
    IF ids = <<>> \/ Head(ids) \notin loaded THEN <<>>
    ELSE <<Head(ids)>> \o KnownPrefix(Tail(ids), loaded)

SnapshotUploads(name, ids) == [i \in DOMAIN ids |-> Rpc(name, ids[i], "ok")]

\* open(...) / ParseFromString(...) of a file that is missing or cannot be
\* parsed: nothing catches the error.
\* (variant: a load step that swallows the error and returns)
LoadFailureSwallowed(line) == Returned("None", line)
LoadFailure(line) == Raised("FileNotFoundError", line)

RpcLine(name) ==
    CASE name = "upload_graph" -> 434
      [] name = "upload_waypoint_snapshot" -> 440
      [] name = "upload_edge_snapshot" -> 445
      [] name = "load_autowalk" -> 457

\* The order of the statements that make the requests: upload_graph, the
\* waypoint snapshot loop, the edge snapshot loop, then _upload_autowalk.
\* (variant: the walk uploaded before the graph and its snapshots)
WalkUploadedFirst(graph, wps, edges, walk) == walk \o graph \o wps \o edges
RequestOrder(graph, wps, edges, walk) == graph \o wps \o edges \o walk

\* The requests of _upload_graph_and_snapshots and _upload_autowalk when none
\* of them fails, and how the call then ends.
UploadRun(wp_loaded, edge_loaded, unknown_wp, unknown_edge, walk_ok) ==
    LET wp_ids   == SnapshotsToUpload(unknown_wp, wp_loaded)
        wps      == KnownPrefix(wp_ids, wp_loaded)
        wp_done  == Len(wps) = Len(wp_ids)
        edge_ids == SnapshotsToUpload(unknown_edge, edge_loaded)
        edges    == IF wp_done THEN KnownPrefix(edge_ids, edge_loaded) ELSE <<>>
        all_done == wp_done /\ Len(edges) = Len(edge_ids)
    IN  [requests |->
            RequestOrder(
                <<Rpc("upload_graph", 0, "ok")>>,
                SnapshotUploads("upload_waypoint_snapshot", wps),
                SnapshotUploads("upload_edge_snapshot", edges),
                IF all_done /\ walk_ok
                THEN <<Rpc("load_autowalk", 0, "ok")>> ELSE <<>>),
         end |->
            IF ~wp_done THEN Raised("KeyError", 439)
            ELSE IF ~all_done THEN Raised("KeyError", 444)
            ELSE IF ~walk_ok THEN LoadFailure(453)
            ELSE Returned("None", 463)]

upload_ends(lg, up, r) ==
    /\ log' = lg
    /\ upload' = up
    /\ result' = r

\* wp_refs, edge_refs: the non-empty snapshot ids of the graph's waypoints
\* and edges; wp_files, edge_files: the snapshot files that can be read.
\* disable_alternate_route_finding only changes the graph sent and is left out.
upload_autowalk ==
    /\ Begin("upload_autowalk")
    /\ UNCHANGED orphaned
    /\ UNCHANGED lease_keep_alive
    /\ \/ upload_ends(<<>>, NoUpload, LoadFailure(394))
       \/ \E wp_refs \in SUBSET WpIds :
            \/ \E wp_files \in SUBSET WpIds :
                 /\ ~(wp_refs \subseteq wp_files)
                 /\ upload_ends(<<>>,
                        [NoUpload EXCEPT !.wp_loaded = LoadedBefore(wp_refs, wp_files)],
                        LoadFailure(413))
            \/ \E edge_refs \in SUBSET EdgeIds :
                 LET loaded == [NoUpload EXCEPT !.wp_loaded = wp_refs,
                                                !.edge_loaded = edge_refs]
                 IN
                 \/ \E edge_files \in SUBSET EdgeIds :
                      /\ ~(edge_refs \subseteq edge_files)
                      /\ upload_ends(<<>>,
                             [loaded EXCEPT
                                 !.edge_loaded = LoadedBefore(edge_refs, edge_files)],
                             LoadFailure(426))
                 \/ \E e \in RpcLayerErrors :
                      upload_ends(<<Rpc("upload_graph", 0, e)>>, loaded, Raised(e, 434))
                 \/ \E unknown_wp \in DistinctSeqs(WpIds),
                       unknown_edge \in DistinctSeqs(EdgeIds), walk_ok \in BOOLEAN :
                      LET run == UploadRun(wp_refs, edge_refs, unknown_wp,
                                           unknown_edge, walk_ok)
                          replied == [loaded EXCEPT !.replied = TRUE,
                                                    !.unknown_wp = unknown_wp,
                                                    !.unknown_edge = unknown_edge]
                      IN  \/ upload_ends(run.requests, replied, run.end)
                          \/ \E k \in 2..Len(run.requests), e \in RpcLayerErrors :
                               upload_ends(
                                   SubSeq(run.requests, 1, k - 1)
                                   \o <<[run.requests[k] EXCEPT !.outcome = e]>>,
                                   replied,
                                   Raised(e, RpcLine(run.requests[k].rpc)))

-----------------------------------------------------------------------------
(* power_on and power_off *)

\* self.robot.is_powered_on(): what it reports, or the error it raises.
PowerReports == {"True", "False"} \cup RpcLayerErrors

\* How robot.power_on / robot.power_off can end.  The robot takes a power
\* request only from the holder of the lease.
PowerRequestOutcomes ==
    IF LeaseHeld THEN {"ok"} \cup RpcLayerErrors ELSE RpcLayerErrors

\* The state the method is after, as is_powered_on reports it.
PowerTarget(method) == IF method = "power_on" THEN "True" ELSE "False"

\* The line of the method's first statement.
PowerLine(method) == IF method = "power_on" THEN 207 ELSE 217

\* if self.robot.is_powered_on(): return / if not ...: return
\* (variant: the early return left out)
NeverAlreadyThere(report, target) == FALSE
AlreadyThere(report, target) == report = target

\* assert self.robot.is_powered_on() / assert not self.robot.is_powered_on()
\* (variant: the assertion left out)
AssertionSkipped(report, target) == TRUE
AssertionHolds(report, target) == report = target

\* Methods that never assign self.lease_keep_alive.
\* (variant: the attribute reset on the way)
lease_reset == lease_keep_alive' = "None"
lease_untouched == UNCHANGED lease_keep_alive

\* One run of power_on / power_off: r1 and r2 are what the two
\* is_powered_on calls give, e how the power request ends, flag is
\* self.powered_on before the call.
power_run(method, r1, e, r2, flag) ==
    LET target == PowerTarget(method)
        line   == PowerLine(method)
        asked  == Rpc("is_powered_on", 0, r1)
        req    == Rpc(method, PowerTimeout, e)
        again  == Rpc("is_powered_on", 0, r2)
    IN  IF r1 \in RpcLayerErrors
        THEN [log |-> <<asked>>, result |-> Raised(r1, line), powered_on |-> flag]
        ELSE IF AlreadyThere(r1, target)
        THEN [log |-> <<asked>>, result |-> Returned("None", line + 1),
              powered_on |-> flag]
        ELSE IF e # "ok"
        THEN [log |-> <<asked, req>>, result |-> Raised(e, line + 3),
              powered_on |-> flag]
        ELSE IF r2 \in RpcLayerErrors
        THEN [log |-> <<asked, req, again>>, result |-> Raised(r2, line + 4),
              powered_on |-> flag]
        ELSE IF ~AssertionHolds(r2, target)
        THEN [log |-> <<asked, req, again>>,
              result |-> Raised("AssertionError", line + 4), powered_on |-> flag]
        ELSE [log |-> <<asked, req, again>>, result |-> Returned("None", line + 6),
              powered_on |-> (target = "True")]

\* Every way the method can run from the current state.
PowerRuns(method) ==
    {power_run(method, r1, e, r2, powered_on) :
        r1 \in PowerReports, e \in PowerRequestOutcomes, r2 \in PowerReports}

power(method) ==
    /\ pc = "idle"
    /\ op' = method
    /\ pc' = "done"
    /\ args' = NoArgs
    /\ first_state' = NoState
    /\ mission_state' = NoState
    /\ plays' = 0
    /\ upload' = NoUpload
    /\ lease_untouched
    /\ UNCHANGED <<init_line, images, orphaned>>
    /\ \E run \in PowerRuns(method) :
        /\ log' = run.log
        /\ result' = run.result
        /\ powered_on' = run.powered_on

power_on == power("power_on")

power_off == power("power_off")

-----------------------------------------------------------------------------
(* get_qr_tags *)

\* The most images self.images holds in a call.
MaxImages == 2

\* What an image response can be: not a visual image; a visual image whose
\* data cv2.imdecode cannot decode (it returns None, and None has no
\* reshape) or whose rows and cols do not fit the data; one on which
\* detectAndDecode raises; one without a QR code (bbox is None); one with.
ImageKinds == {"depth", "undecodable", "detect_error", "no_code", "qr"}

ImageBatches == UNION {[1..n -> ImageKinds] : n \in 0..MaxImages}

\* The for loop from image i on, tags being the tags appended so far.
RECURSIVE qr_scan(_, _, _)
qr_scan(imgs, i, tags) ==
    IF i > Len(imgs) THEN [tags |-> tags, result |-> Returned("tags", 371)]
    ELSE IF imgs[i] = "depth" THEN qr_scan(imgs, i + 1, tags)
    ELSE IF imgs[i] = "undecodable"
    THEN [tags |-> tags, result |-> Raised("AttributeError", 360)]
    ELSE IF imgs[i] = "detect_error" THEN qr_scan(imgs, i + 1, tags)
    ELSE IF imgs[i] = "no_code" THEN qr_scan(imgs, i + 1, tags)
    ELSE qr_scan(imgs, i + 1, Append(tags, Rpc("tags.append", i, "ok")))

\* log holds the tags appended, by the index of their image.
get_qr_tags ==
    /\ pc = "idle"
    /\ pc' = "done"
    /\ op' = "get_qr_tags"
    /\ args' = NoArgs
    /\ first_state' = NoState
    /\ mission_state' = NoState
    /\ plays' = 0
    /\ upload' = NoUpload
    /\ UNCHANGED <<lease_keep_alive, init_line, powered_on, orphaned>>
    /\ \E imgs \in ImageBatches :
         /\ images' = imgs
         /\ log' = qr_scan(imgs, 1, <<>>).tags
         /\ result' = qr_scan(imgs, 1, <<>>).result

-----------------------------------------------------------------------------
(* Construction and shutdown *)

\* The last line of __init__: construction ran to its end.
InitDone == 112

\* Where __init__ stopped: config["addr"] (67), authenticate (79),
\* ensure_client (86) and clear_graph (110) may raise; or it ran to its end.
InitOutcomes == {67, 79, 86, 110, InitDone}

\* Attributes an instance has when __init__ stopped at line l.
HasLogger(l) == l > 76
HasRobotId(l) == l > 82
HasLeaseAttr(l) == l > 108

\* shutdown, called by the caller or, for an instance whose construction
\* failed, by __del__.
shutdown ==
    /\ pc \in {"idle", "failed_init"}
    /\ pc' = "done"
    /\ op' = "shutdown"
    /\ args' = NoArgs
    /\ first_state' = NoState
    /\ mission_state' = NoState
    /\ plays' = 0
    /\ upload' = NoUpload
    /\ UNCHANGED <<init_line, images, orphaned>>
    /\ IF ~HasLogger(init_line)
       THEN /\ log' = <<>>
            /\ result' = Raised("AttributeError", 187)
            /\ UNCHANGED <<lease_keep_alive, powered_on>>
       ELSE IF ~HasRobotId(init_line)
       THEN /\ log' = <<>>
            /\ result' = Returned("None", 191)
            /\ UNCHANGED <<lease_keep_alive, powered_on>>
       ELSE IF ~HasLeaseAttr(init_line) \/ lease_keep_alive = "None"
       THEN /\ log' = <<>>
            /\ result' = Raised("AttributeError", 192)
            /\ UNCHANGED <<lease_keep_alive, powered_on>>
       ELSE IF lease_keep_alive # "alive"
       THEN /\ log' = <<Rpc("time_sync.stop", 0, "ok")>>
            /\ result' = Returned("None", 200)
            /\ UNCHANGED <<lease_keep_alive, powered_on>>
       ELSE \E run \in PowerRuns("power_off") :
              /\ powered_on' = run.powered_on
              /\ IF run.result.kind = "raised"
                 THEN /\ log' = run.log
                      /\ result' = run.result
                      /\ UNCHANGED lease_keep_alive
                 ELSE /\ log' = run.log \o release_run(lease_keep_alive).log
                                 \o <<Rpc("time_sync.stop", 0, "ok")>>
                      /\ lease_keep_alive' = release_run(lease_keep_alive).lease
                      /\ result' = Returned("None", 200)

-----------------------------------------------------------------------------

Init ==
    /\ lease_keep_alive = "None"
    /\ init_line \in InitOutcomes
    /\ pc = (IF init_line = InitDone THEN "idle" ELSE "failed_init")
    /\ op = "none"
    /\ args = NoArgs
    /\ first_state = NoState
    /\ mission_state = NoState
    /\ plays = 0
    /\ log = <<>>
    /\ upload = NoUpload
    /\ result = NoResult
    /\ powered_on = FALSE
    /\ images = <<>>
    /\ orphaned = FALSE

\* The caller takes the result of the call that ended.
caller_resumes ==
    /\ pc = "done"
    /\ init_line = InitDone
    /\ pc' = "idle"
    /\ op' = "none"
    /\ args' = NoArgs
    /\ first_state' = NoState
    /\ mission_state' = NoState
    /\ plays' = 0
    /\ log' = <<>>
    /\ upload' = NoUpload
    /\ result' = NoResult
    /\ images' = <<>>
    /\ UNCHANGED <<lease_keep_alive, init_line, powered_on, orphaned>>

Next ==
    \/ caller_resumes
    \/ acquire
    \/ release
    \/ toggle_lease
    \/ command
    \/ dock
    \/ undock
    \/ stop_autowalk
    \/ pause_autowalk
    \/ upload_autowalk
    \/ start_autowalk
    \/ start_autowalk_loop
    \/ power_on
    \/ power_off
    \/ shutdown
    \/ get_qr_tags

Spec == Init /\ [][Next]_vars

\* The caller's thread keeps running the retry loop it is in.
LiveSpec == Spec /\ WF_vars(start_autowalk_loop)

-----------------------------------------------------------------------------
(* Claims *)

RECURSIVE IdsOf(_, _)
IdsOf(s, name) ==
    IF s = <<>> THEN <<>>
    ELSE (IF Head(s).rpc = name THEN <<Head(s).id>> ELSE <<>>)
         \o IdsOf(Tail(s), name)

\* The call polled the mission service a first time.
Polled == first_state # NoState

\* stop_autowalk / pause_autowalk polled the status again after the request.
Repolled == Len(log) = 3 /\ log[3].outcome = "ok"

MissionLoaded == Polled /\ first_state.mission_id # NoMissionId

\* C1 as stated: stop_autowalk, called with status RUNNING or PAUSED, issues
\* the stop request and returns true if the status polled afterwards is
\* STOPPED and false if it is anything else.
C1_StopTrueOnlyWhenStopped ==
    (op = "stop_autowalk" /\ first_state.status \in {"RUNNING", "PAUSED"} /\ Repolled)
        => /\ log[2] = Rpc("stop_mission", 0, "ok")
           /\ result = Returned(Bool(mission_state.status = "STOPPED"), 522)

\* C1 amended: stop_autowalk, called with status RUNNING or PAUSED, issues
\* the stop request and returns true if the status polled afterwards is
\* STOPPED or SUCCESS, and false if it is anything else.
C1_StopTrueWhenStoppedOrSuccess ==
    (op = "stop_autowalk" /\ first_state.status \in {"RUNNING", "PAUSED"} /\ Repolled)
        => /\ log[2] = Rpc("stop_mission", 0, "ok")
           /\ result = Returned(Bool(mission_state.status \in {"STOPPED", "SUCCESS"}), 522)

C1_Witness ==
    /\ op = "stop_autowalk"
    /\ first_state.status = "PAUSED"
    /\ Repolled
    /\ mission_state.status = "SUCCESS"
    /\ result.value = "True"

\* C2: start_autowalk called while the mission service reports mission_id
\* = -1 raises AutowalkStartError and issues no play_mission request,
\* whatever the status polled and the other arguments.
C2_NoMissionRaisesWithoutPlay ==
    (op = "start_autowalk" /\ Polled /\ first_state.mission_id = NoMissionId)
        => /\ pc = "done"
           /\ result = Raised("AutowalkStartError", 486)
           /\ plays = 0
           /\ Count(log, "play_mission") = 0

C2_Witness ==
    /\ op = "start_autowalk"
    /\ first_state.mission_id = NoMissionId
    /\ first_state.status = "PAUSED"
    /\ args.do_localize
    /\ args.timeout = ShortTimeout
    /\ result.value = "AutowalkStartError"

\* C3: pause_autowalk with a status other than RUNNING, and stop_autowalk
\* with a status outside {RUNNING, PAUSED}, raise NoMissionRunningException
\* and issue no pause_mission / stop_mission request; with the precondition
\* met each issues exactly one such request.
C3_PreconditionGuardsRequest ==
    /\ (op = "pause_autowalk" /\ Polled) =>
          IF first_state.status # "RUNNING"
          THEN /\ result = Raised("NoMissionRunningException", 528)
               /\ Count(log, "pause_mission") = 0
          ELSE Count(log, "pause_mission") = 1
    /\ (op = "stop_autowalk" /\ Polled) =>
          IF first_state.status \notin {"RUNNING", "PAUSED"}
          THEN /\ result = Raised("NoMissionRunningException", 513)
               /\ Count(log, "stop_mission") = 0
          ELSE Count(log, "stop_mission") = 1

C3_Witness ==
    /\ op = "pause_autowalk"
    /\ first_state.status = "PAUSED"
    /\ result.value = "NoMissionRunningException"
    /\ Count(log, "pause_mission") = 0

\* C4: after the graph upload, upload_autowalk uploads snapshots only for
\* ids the response lists as unknown, never for a loaded snapshot the
\* response does not list, and once the snapshot uploads are over it has
\* uploaded exactly the listed ids, each once, in the order listed.
C4_OnlyUnknownSnapshotsUploaded ==
    op = "upload_autowalk" =>
        LET wps   == IdsOf(log, "upload_waypoint_snapshot")
            edges == IdsOf(log, "upload_edge_snapshot")
        IN  /\ Range(wps) \subseteq Range(upload.unknown_wp)
            /\ Range(edges) \subseteq Range(upload.unknown_edge)
            /\ (wps # <<>> \/ edges # <<>>) =>
                   /\ upload.replied
                   /\ log[1] = Rpc("upload_graph", 0, "ok")
            /\ (result.kind = "returned" \/ result.line \in {453, 457}) =>
                   /\ wps = upload.unknown_wp
                   /\ edges = upload.unknown_edge

C4_Witness ==
    /\ op = "upload_autowalk"
    /\ result.kind = "returned"
    /\ upload.wp_loaded = {1, 2}
    /\ upload.unknown_wp = <<2>>
    /\ IdsOf(log, "upload_waypoint_snapshot") = <<2>>

\* C5: a command method built on _start_robot_command, with the lease held
\* or not, forwards exactly one robot_command request, and when that request
\* fails with ResponseError or RpcError the method returns None.
C5_CommandsConvertRpcErrors ==
    op \in CommandMethods =>
        /\ Len(log) = 1
        /\ log[1].rpc = "robot_command"
        /\ log[1].outcome \in RpcLayerErrors => result = Returned("None", 288)

C5_Witness ==
    /\ op = "return_to_origin"
    /\ ~LeaseHeld
    /\ log = <<Rpc("robot_command", 0, "RpcError")>>
    /\ result.kind = "returned"

\* C6: dock and undock never propagate an RPC-layer error: when a request
\* they make fails with ResponseError or RpcError they return.
C6_DockingNeverRaisesRpcErrors ==
    (/\ op \in {"dock", "undock"}
     /\ \E i \in DOMAIN log : log[i].outcome \in RpcLayerErrors)
        => result.kind = "returned"

\* C7 as stated: start_autowalk, with a mission loaded, raises
\* AutowalkStartError whenever a status it polls is ERROR or FAILURE, the
\* first status polled included.
C7_StartErrorOnAnyPoll ==
    (/\ op = "start_autowalk"
     /\ pc = "done"
     /\ MissionLoaded
     /\ \/ first_state.status \in {"ERROR", "FAILURE"}
        \/ mission_state.status \in {"ERROR", "FAILURE"})
        => (result.kind = "raised" /\ result.value = "AutowalkStartError")

\* C7 amended: start_autowalk, with a mission loaded, raises
\* AutowalkStartError whenever a status it polls after a play request is
\* ERROR or FAILURE; when the first status polled is already ERROR or
\* FAILURE it issues no play request and returns false.
C7_StartErrorAfterPlay ==
    (op = "start_autowalk" /\ MissionLoaded) =>
        /\ (plays >= 1 /\ mission_state.status \in {"ERROR", "FAILURE"}) =>
               (pc = "done" /\ result = Raised("AutowalkStartError", 505))
        /\ first_state.status \in {"ERROR", "FAILURE"} =>
               /\ plays = 0
               /\ pc = "done" => result = Returned("False", 507)

C7_Witness ==
    /\ op = "start_autowalk"
    /\ MissionLoaded
    /\ first_state.status = "NONE"
    /\ plays >= 1
    /\ mission_state.status = "FAILURE"
    /\ result = Raised("AutowalkStartError", 505)

\* C8: the retry loop of start_autowalk is bounded: whatever the mission
\* service answers, a call that entered the loop eventually ends.
C8_StartAutowalkTerminates ==
    (pc = "start_autowalk") ~> (pc = "done")

\* C9: when start_autowalk returns after its loop has exited, it returns
\* true exactly when the last status polled is RUNNING or PAUSED.
C9_ReturnAfterLoop ==
    (op = "start_autowalk" /\ result.kind = "returned" /\ result.line = 507)
        => (result.value = "True" <=> mission_state.status \in {"RUNNING", "PAUSED"})

C9_Witness ==
    /\ op = "start_autowalk"
    /\ plays >= 1
    /\ mission_state.status = "RUNNING"
    /\ result = Returned("True", 507)

\* C10: in start_autowalk, whenever the state polled has status NONE or
\* PAUSED and pending questions, the call returns false without a further
\* play_mission request; with questions in the first state polled no play
\* request is issued at all.
C10_QuestionsAbort ==
    /\ [][(/\ pc = "start_autowalk"
           /\ mission_state.status \in {"NONE", "PAUSED"}
           /\ mission_state.questions)
          => (/\ pc' = "done"
              /\ result' = Returned("False", 491)
              /\ plays' = plays
              /\ log' = log)]_vars
    /\ []((/\ op = "start_autowalk"
           /\ first_state.status \in {"NONE", "PAUSED"}
           /\ first_state.questions)
          => plays = 0)

C10_Witness ==
    /\ op = "start_autowalk"
    /\ plays >= 1
    /\ mission_state.status = "PAUSED"
    /\ mission_state.questions
    /\ result = Returned("False", 491)

PowerMethods == {"power_on", "power_off"}

\* C11: power_on with the robot reported powered on (as after an earlier
\* power_on), and power_off with the robot reported off, return at once:
\* no power request is made and self.powered_on is left as it was.
C11_PowerNoOp ==
    [][(/\ pc = "idle"
        /\ op' \in PowerMethods
        /\ log'[1] = Rpc("is_powered_on", 0, PowerTarget(op')))
       => (/\ log' = <<Rpc("is_powered_on", 0, PowerTarget(op'))>>
           /\ Count(log', op') = 0
           /\ result' = Returned("None", PowerLine(op') + 1)
           /\ powered_on' = powered_on)]_vars

C11_Witness ==
    /\ op = "power_on"
    /\ powered_on
    /\ log = <<Rpc("is_powered_on", 0, "True")>>
    /\ result.kind = "returned"

\* C12: when the robot is not reported in the target state after the power
\* request, power_on / power_off end in an AssertionError; whenever they
\* return, the last report was powered on for power_on and off for
\* power_off.
C12_PowerAsserted ==
    op \in PowerMethods =>
        /\ (/\ Len(log) = 3
            /\ log[3].outcome \in {"True", "False"}
            /\ log[3].outcome # PowerTarget(op))
           => result = Raised("AssertionError", PowerLine(op) + 4)
        /\ result.kind = "returned" =>
               log[Len(log)] = Rpc("is_powered_on", 0, PowerTarget(op))

C12_Witness ==
    /\ op = "power_off"
    /\ log = <<Rpc("is_powered_on", 0, "True"), Rpc("power_off", PowerTimeout, "ok"),
               Rpc("is_powered_on", 0, "True")>>
    /\ result.value = "AssertionError"

\* C13: acquire called while the keep-alive is alive creates no new
\* keep-alive, makes no lease request and leaves the lease as it is, and
\* once the wait for time sync is over it returns true.
C13_AcquireIdempotent ==
    [][(pc = "idle" /\ op' = "acquire" /\ lease_keep_alive = "alive")
       => (/\ lease_keep_alive' = lease_keep_alive
           /\ Count(log', "LeaseKeepAlive") = 0
           /\ log'[1].outcome = "ok" => result' = Returned("True", 154))]_vars

C13_Witness ==
    /\ op = "acquire"
    /\ lease_keep_alive = "alive"
    /\ log = <<Rpc("wait_for_sync", 0, "ok")>>
    /\ result = Returned("True", 154)

\* The keep-alive of the call could not be created.
AcquireFailed ==
    /\ op = "acquire"
    /\ Len(log) = 2
    /\ log[2].rpc = "LeaseKeepAlive"
    /\ log[2].outcome # "ok"

\* C14 as stated: when acquire fails to obtain the lease it returns false
\* and the session stays not held, except that a connection-level failure
\* propagates as an exception.
C14_ConnectionFailuresPropagate ==
    AcquireFailed =>
        IF log[2].outcome = "RpcError"
        THEN result.kind = "raised"
        ELSE result = Returned("False", 163) /\ ~LeaseHeld

\* C14 amended: when acquire fails to obtain the lease, whatever the error
\* raised while the keep-alive is created (a connection-level one
\* included), it returns false and the session stays not held; only a
\* failure of the wait for time sync before it propagates.
C14_AcquireFailureReturnsFalse ==
    /\ AcquireFailed => (result = Returned("False", 163) /\ ~LeaseHeld)
    /\ (op = "acquire" /\ result.kind = "raised") =>
           /\ log = <<Rpc("wait_for_sync", 0, "TimeSyncError")>>
           /\ result = Raised("TimeSyncError", 149)

C14_Witness ==
    /\ AcquireFailed
    /\ log[2].outcome = "RpcError"
    /\ result = Returned("False", 163)
    /\ lease_keep_alive = "dead"

\* C15: shutdown on a session whose construction failed, whichever step
\* failed, returns without raising and requests neither a power-off nor a
\* lease release.
C15_ShutdownSafeWhenUninitialized ==
    (op = "shutdown" /\ init_line # InitDone) =>
        /\ result.kind = "returned"
        /\ Count(log, "power_off") = 0
        /\ Count(log, "LeaseKeepAlive.shutdown") = 0

\* C16: shutdown on a fully constructed session whose lease is not held
\* (it made no power-off request) completes without raising and stops
\* time synchronization.
C16_ShutdownWithoutLeaseStopsTimeSync ==
    (op = "shutdown" /\ init_line = InitDone /\ Count(log, "is_powered_on") = 0) =>
        /\ result = Returned("None", 200)
        /\ log = <<Rpc("time_sync.stop", 0, "ok")>>

\* shutdown called power_off and power_off returned.
PowerOffCompleted ==
    /\ op = "shutdown"
    /\ Count(log, "is_powered_on") > 0
    /\ result.kind = "returned"

\* C17: when shutdown reaches power_off and power_off completes, the lease
\* is not held when shutdown returns: the keep-alive was shut down after
\* the power-off and before time synchronization was stopped.
C17_ShutdownReleasesLease ==
    PowerOffCompleted =>
        /\ ~LeaseHeld
        /\ Len(log) >= 3
        /\ log[Len(log) - 1] = Rpc("LeaseKeepAlive.shutdown", 0, "ok")
        /\ log[Len(log)] = Rpc("time_sync.stop", 0, "ok")

C17_Witness ==
    /\ PowerOffCompleted
    /\ Count(log, "power_off") = 1
    /\ lease_keep_alive = "dead"
    /\ result = Returned("None", 200)

\* The exits of upload_autowalk at a load step: the graph file, a waypoint
\* snapshot file, an edge snapshot file, the walk file.
LoadLines == {394, 413, 426, 453}

\* C18 as stated: a load failure at any step of upload_autowalk propagates
\* to the caller and no graph, snapshot or mission upload request has been
\* made by the call.
C18_LoadFailureLeavesNoUpload ==
    (op = "upload_autowalk" /\ result.line \in LoadLines) =>
        /\ result.kind = "raised"
        /\ log = <<>>

\* C18 amended: a load failure at any step propagates to the caller; when
\* it is the graph file or a snapshot file no request has been made, and
\* when it is the walk file the graph and the snapshots the robot asked
\* for have been uploaded but no mission upload request has been made.
C18_LoadFailureAborts ==
    (op = "upload_autowalk" /\ result.line \in LoadLines) =>
        /\ result = Raised("FileNotFoundError", result.line)
        /\ result.line # 453 => log = <<>>
        /\ result.line = 453 =>
              /\ log = UploadRun(upload.wp_loaded, upload.edge_loaded,
                                 upload.unknown_wp, upload.unknown_edge, FALSE).requests
              /\ log[1] = Rpc("upload_graph", 0, "ok")
              /\ Count(log, "load_autowalk") = 0
              /\ \A i \in DOMAIN log : log[i].outcome = "ok"

C18_Witness ==
    /\ op = "upload_autowalk"
    /\ result = Raised("FileNotFoundError", 453)
    /\ Count(log, "upload_graph") = 1
    /\ Count(log, "upload_waypoint_snapshot") > 0
    /\ Count(log, "load_autowalk") = 0

LeaseMethods == {"acquire", "release", "toggle_lease"}

\* C19: the lease keep-alive changes only in acquire, release and
\* toggle_lease, and in shutdown only by the release it makes; every other
\* operation leaves it as it was.
C19_LeaseFrame ==
    [][lease_keep_alive' # lease_keep_alive =>
          \/ op' \in LeaseMethods
          \/ /\ op' = "shutdown"
             /\ lease_keep_alive' = release_run(lease_keep_alive).lease
             /\ Count(log', "LeaseKeepAlive.shutdown") = 1]_vars

C19_Witness ==
    /\ op = "power_on"
    /\ lease_keep_alive = "alive"
    /\ powered_on
    /\ result = Returned("None", PowerLine("power_on") + 6)

\* The tags of every image of the batch that carries a QR code.
RECURSIVE TagsOf(_, _)
TagsOf(imgs, i) ==
    IF i > Len(imgs) THEN <<>>
    ELSE (IF imgs[i] = "qr" THEN <<Rpc("tags.append", i, "ok")>> ELSE <<>>)
         \o TagsOf(imgs, i + 1)

\* C20: get_qr_tags skips an image whose decoding, reshaping or QR
\* detection fails, returns the tags of every other image of the batch and
\* does not raise.
C20_DecodeFailuresSkipped ==
    op = "get_qr_tags" =>
        /\ result = Returned("tags", 371)
        /\ log = TagsOf(images, 1)

SnapshotRpcs == {"upload_waypoint_snapshot", "upload_edge_snapshot"}

\* C21: within one upload_autowalk call, upload_graph is the first request
\* and is made only after every graph and snapshot file was loaded; a
\* snapshot upload is made only after upload_graph returned its response;
\* load_autowalk is the last request and is made only after every snapshot
\* the response asked for was uploaded, so a failing graph or snapshot
\* upload leaves the mission not uploaded.
C21_UploadOrder ==
    op = "upload_autowalk" =>
        /\ log # <<>> =>
              /\ log[1].rpc = "upload_graph"
              /\ result.line \notin {394, 413, 426}
        /\ \A i \in DOMAIN log :
              /\ log[i].rpc = "upload_graph" => i = 1
              /\ log[i].rpc \in SnapshotRpcs =>
                    /\ log[1] = Rpc("upload_graph", 0, "ok")
                    /\ upload.replied
              /\ log[i].rpc = "load_autowalk" =>
                    /\ i = Len(log)
                    /\ \A j \in 1..(i - 1) : log[j].outcome = "ok"
                    /\ IdsOf(log, "upload_waypoint_snapshot") = upload.unknown_wp
                    /\ IdsOf(log, "upload_edge_snapshot") = upload.unknown_edge
              /\ (log[i].rpc \in SnapshotRpcs \cup {"upload_graph"}
                  /\ log[i].outcome # "ok") => Count(log, "load_autowalk") = 0

C21_Witness ==
    /\ op = "upload_autowalk"
    /\ Len(log) = 4
    /\ log[2].rpc = "upload_waypoint_snapshot"
    /\ log[3].rpc = "upload_edge_snapshot"
    /\ log[4] = Rpc("load_autowalk", 0, "ok")
    /\ result = Returned("None", 463)

LocalizeRpcs == {"download_graph", "set_localization"}

\* The positions in the log of the requests made for the mission itself.
MissionRequests == {i \in DOMAIN log : log[i].rpc \in {"get_state", "play_mission"}}

\* C22: with do_localize set, start_autowalk requests download_graph and
\* then set_localization, each once, before it reads the mission state and
\* so before the no-mission check and any play request; with do_localize
\* not set it requests neither.
C22_LocalizeFirst ==
    op = "start_autowalk" =>
        IF args.do_localize
        THEN /\ log[1].rpc = "download_graph"
             /\ Count(log, "download_graph") = 1
             /\ Count(log, "set_localization") <= 1
             /\ Len(log) >= 2 =>
                   /\ log[1].outcome = "ok"
                   /\ log[2].rpc = "set_localization"
             /\ \A i \in MissionRequests :
                   /\ i > 2
                   /\ log[2] = Rpc("set_localization", 0, "ok")
             /\ (Polled \/ result.line = 486) => 3 \in MissionRequests
        ELSE /\ \A i \in DOMAIN log : log[i].rpc \notin LocalizeRpcs
             /\ log[1].rpc = "get_state"

C22_Witness ==
    /\ op = "start_autowalk"
    /\ args.do_localize
    /\ plays >= 1
    /\ SubSeq(log, 1, 4) = <<Rpc("download_graph", 0, "ok"),
                             Rpc("set_localization", 0, "ok"),
                             Rpc("get_state", 0, "ok"),
                             Rpc("play_mission", args.timeout, "ok")>>

\* toggle_lease tried to create a keep-alive: the session was not held.
ToggleFromNotHeld == op = "toggle_lease" /\ log[1].rpc = "LeaseKeepAlive"

\* C23 as stated: at most one keep-alive created by the session is alive,
\* and toggle_lease always flips the held state: a call made when the
\* lease is not held leaves it held, a call made when it is held leaves it
\* not held.
C23_ToggleAlwaysFlips ==
    /\ ~orphaned
    /\ op = "toggle_lease" => (LeaseHeld <=> ToggleFromNotHeld)

\* C23 amended: at most one keep-alive created by the session is alive, a
\* keep-alive being created, once per call, only when the current one is
\* absent or not alive; toggle_lease called with the lease held leaves it
\* not held; called with the lease not held it leaves it held when it
\* returns, and when the keep-alive cannot be created it raises the error
\* and the lease stays not held.
C23_OneKeepAliveToggleFlipsOnReturn ==
    [][/\ ~orphaned'
       /\ (pc # "done" /\ pc' = "done" /\ Count(log', "LeaseKeepAlive") > 0) =>
             /\ ~LeaseHeld
             /\ Count(log', "LeaseKeepAlive") = 1
       /\ (pc # "done" /\ op' = "toggle_lease") =>
             IF LeaseHeld
             THEN lease_keep_alive' = "dead" /\ result' = Returned("None", 179)
             ELSE \/ lease_keep_alive' = "alive" /\ result' = Returned("None", 177)
                  \/ /\ lease_keep_alive' = lease_keep_alive
                     /\ result' = Raised(log'[1].outcome, 177)
                     /\ log'[1].outcome \in RpcLayerErrors]_vars

C23_Witness ==
    /\ ToggleFromNotHeld
    /\ log = <<Rpc("LeaseKeepAlive", 0, "ResponseError")>>
    /\ result = Raised("ResponseError", 177)
    /\ lease_keep_alive = "dead"
    /\ ~orphaned

\* C24: whenever power_on or power_off returns, self.powered_on equals the
\* powered state the robot reported last in the call, true after power_on
\* and false after power_off.
C24_FlagMatchesReport ==
    (op \in PowerMethods /\ result.kind = "returned") =>
        /\ log[Len(log)].outcome = PowerTarget(op)
        /\ Bool(powered_on) = log[Len(log)].outcome

=============================================================================
